---- MODULE Spec2Model ----
(***************************************************************************)
(* The two cookiecutter hooks of the template repository.                  *)
(*                                                                         *)
(*   hooks/post_gen_project.py  ProjectSetup: the post-generation task     *)
(*                              orchestrator (specifications Spec,         *)
(*                              FairSpec, and SpecReuse for an object      *)
(*                              whose run_setup is called again)           *)
(*   hooks/pre_gen_project.py   the pre-generation validation pipeline     *)
(*                              (specification SpecPre, and SpecInputs     *)
(*                              for one validator's inputs at a time)      *)
(*   {{ cookiecutter.repo_name }}/src/project_configs.py                   *)
(*                              the settings classes of the generated      *)
(*                              project (specification SpecPaths)          *)
(*                                                                         *)
(* Strings the code inspects character by character (strip, regular        *)
(* expressions, len) are sequences of one-character strings.               *)
(***************************************************************************)
EXTENDS Integers, Sequences, FiniteSets, TLC

\* Number of times the hook process is launched against the same project root.
MaxRuns == 2

\* Longest repository name, project name and setup flag the validators are
\* given, longest author email, and longest description.
MaxLen == 3
MaxEmailLen == 6
MaxDescriptionLen == 102

VARIABLES
    \* ---- the external system the post-generation hook acts on ----
    env_file,         \* environment.yml exists at the project root
    conda_installed,  \* `conda --version` succeeds in the shell
    git_installed,    \* `git --version` succeeds in the shell
    remote_repo,      \* the rendered "{{ cookiecutter.remote_repository }}"
    repo,             \* the version-control state of the project root
    \* ---- the ProjectSetup object ----
    success_count,
    total_tasks,
    \* ---- control and what the run has produced so far ----
    pc,               \* position of the process in main / run_setup
    runs,             \* calls of run_setup so far
    cmds,             \* external commands issued by this launch, in order
    env_result,       \* outcome of setup_conda_environment
    git_result,       \* outcome of setup_git_repository
    summary,          \* the printed summary line, << >> until printed
    exit_code,        \* value returned by run_setup, -1 until it returns
    snap,             \* the repository as it was when the git task began
    \* ---- the pre-generation hook ----
    params,           \* the rendered cookiecutter parameters and the host
    vpc,              \* the call of main that comes next (1..7), 8 before
                      \* main's last print, 0 once the process has ended
    ran,              \* validators called so far, in order
    stderr,           \* lines printed on the error stream, in order
    pre_exit,         \* exit status of the pre-generation hook, -1 while running
    \* ---- the settings classes of the generated project ----
    dirs,             \* the directories that exist on the file system
    call,             \* the class being instantiated and its keyword arguments
    values,           \* the dictionary the "before" validator hands on
    built,            \* the object the constructor returns, or what it raises
    cpc               \* position inside the constructor

postVars == <<env_file, conda_installed, git_installed, remote_repo, repo,
              success_count, total_tasks, pc, runs, cmds, env_result,
              git_result, summary, exit_code, snap>>
preVars == <<params, vpc, ran, stderr, pre_exit>>
cfgVars == <<dirs, call, values, built, cpc>>
vars == <<postVars, preVars, cfgVars>>

----------------------------------------------------------------------------
(* Strings *)

Chars(s) == {s[i] : i \in 1..Len(s)}

\* The ASCII characters str.strip() removes that the model's strings use.
Whitespace == {" ", "\t", "\n", "\r", "\f"}

RECURSIVE LStrip(_)
LStrip(s) == IF s # << >> /\ Head(s) \in Whitespace THEN LStrip(Tail(s)) ELSE s

RECURSIVE RStrip(_)
RStrip(s) ==
    IF s # << >> /\ s[Len(s)] \in Whitespace
    THEN RStrip(SubSeq(s, 1, Len(s) - 1))
    ELSE s

\* str.strip()
Strip(s) == RStrip(LStrip(s))

----------------------------------------------------------------------------
(* External commands: what the shell answers *)

\* A command the shell ran to completion with exit status rc.
Exited(rc) == [launched |-> TRUE, rc |-> rc]

\* The child could not be started at all (the cwd handed to subprocess.run is
\* gone or not accessible): subprocess.run raises OSError. Only run_command
\* passes a cwd; the availability probe runs in the process's own directory.
NoLaunch == [launched |-> FALSE, rc |-> -1]

\* `<tool> --version` through the shell: 0 when the tool is on the PATH, 127
\* (the shell's "command not found") when it is not.
ProbeResponses(installed) == {Exited(IF installed THEN 0 ELSE 127)}

\* `conda env create -f environment.yml`
CondaCreateResponses == {Exited(0), Exited(1), NoLaunch}

\* `git init` (succeeds on an initialized repository too: it reinitializes)
GitInitResponses == {Exited(0), Exited(128), NoLaunch}

\* `git add .`
GitAddResponses == {Exited(0), Exited(128), NoLaunch}

\* `git diff --cached --quiet`, with the exit status git documents for it: 1
\* when the index differs from HEAD, 0 when it does not.
GitDiffResponses(r) == {Exited(IF r.staged THEN 1 ELSE 0), NoLaunch}

\* `git commit`: 1 with nothing staged ("nothing to commit"); with staged
\* changes it commits, or fails (no identity configured, a hook, ...).
GitCommitResponses(r) ==
    (IF r.staged THEN {Exited(0), Exited(128)} ELSE {Exited(1)}) \cup {NoLaunch}

\* `git remote add origin <url>`: 3 when origin exists already.
GitRemoteAddResponses(r) ==
    (IF r.remote = << >> THEN {Exited(0), Exited(128)} ELSE {Exited(3)})
        \cup {NoLaunch}

\* `git branch -M main`
GitBranchResponses == {Exited(0), Exited(128), NoLaunch}

\* `git push -u origin main`
GitPushResponses == {Exited(0), Exited(1), Exited(128), NoLaunch}

\* Effects of the git commands that succeeded.
GitInitEffect(r) == [r EXCEPT !.init = TRUE]
GitAddEffect(r) == [r EXCEPT !.staged = r.staged \/ r.dirty, !.dirty = FALSE]
GitCommitEffect(r) == [r EXCEPT !.commits = @ + 1, !.staged = FALSE]
GitRemoteAddEffect(r, url) == [r EXCEPT !.remote = url]
GitBranchEffect(r) == [r EXCEPT !.branch = "main"]
GitPushEffect(r) == [r EXCEPT !.pushed = r.commits]

NoRepo == [init |-> FALSE, dirty |-> TRUE, staged |-> FALSE, commits |-> 0,
           remote |-> << >>, branch |-> "", pushed |-> 0]

----------------------------------------------------------------------------
(* ProjectSetup.run_command and ProjectSetup.check_command_available *)

\* subprocess.run(..., check=True): the result the caller observes.
Returned(rc) == [exc |-> "None", rc |-> rc]
Raised(exc, rc) == [exc |-> exc, rc |-> rc]

\* Variant: run_command with check=False.
run_command_unchecked(resp) ==
    IF ~resp.launched THEN Raised("OSError", resp.rc) ELSE Returned(resp.rc)

\* Variant: run_command that swallows every error and hands back the status.
run_command_never_raises(resp) == Returned(resp.rc)

run_command(resp) ==
    IF ~resp.launched THEN Raised("OSError", resp.rc)
    ELSE IF resp.rc # 0 THEN Raised("CalledProcessError", resp.rc)
    ELSE Returned(resp.rc)

\* Variant: the probe run without a shell, where a missing tool is a
\* FileNotFoundError that nothing catches.
check_command_available_uncaught(resp) ==
    IF ~resp.launched \/ resp.rc = 127 THEN [exc |-> "FileNotFoundError", value |-> FALSE]
    ELSE [exc |-> "None", value |-> resp.rc = 0]

\* Variant: a probe that reports every tool as available.
check_command_available_always(resp) == [exc |-> "None", value |-> TRUE]

\* What check_command_available hands to its caller: a boolean, or the
\* exception its single `except subprocess.CalledProcessError` lets through.
check_command_available(resp) ==
    LET r == run_command(resp) IN
    IF r.exc = "None" THEN [exc |-> "None", value |-> TRUE]
    ELSE IF r.exc = "CalledProcessError" THEN [exc |-> "None", value |-> FALSE]
    ELSE [exc |-> r.exc, value |-> FALSE]

\* One entry of the command log.
Issued(cmd, arg, resp, res) ==
    [cmd |-> cmd, arg |-> arg, rc |-> resp.rc, exc |-> res.exc]

\* A task's result: its status, the message printed for it, and the command
\* the message names ("" when it names none).
NoResult == [status |-> "None", detail |-> "", step |-> ""]
Outcome(status, detail, step) == [status |-> status, detail |-> detail, step |-> step]

\* The two except clauses that close each task's try block.
Caught(res, cmd, failed, unexpected) ==
    IF res.exc = "CalledProcessError"
    THEN Outcome("Failed", failed, cmd)
    ELSE Outcome("Failed", unexpected, cmd)

CONDA_PROBE == "conda --version"
CONDA_CREATE == "conda env create -f environment.yml"
GIT_PROBE == "git --version"
GIT_INIT == "git init"
GIT_ADD == "git add ."
GIT_DIFF == "git diff --cached --quiet"
GIT_COMMIT == "git commit -m \"Initial commit from cookiecutter\""
GIT_REMOTE == "git remote add origin"
GIT_BRANCH == "git branch -M main"
GIT_PUSH == "git push -u origin main"

----------------------------------------------------------------------------
(* ProjectSetup.run_setup *)

\* Variant: run_setup that gives up on the second task when the first fails.
run_setup_next_stop_on_failure(task, ret) ==
    IF task = "env" /\ ret THEN "git_begin" ELSE "summary"

\* Where run_setup goes when a task has returned `ret`: the return value is
\* discarded, the next statement runs.
run_setup_next(task, ret) == IF task = "env" THEN "git_begin" ELSE "summary"

\* Variants: any success reported as full success; no partial tier.
ExitCodeAnySuccess(sc, tt) == IF sc > 0 THEN 0 ELSE 2

ExitCodeNoPartial(sc, tt) == IF sc = tt THEN 0 ELSE 2

\* The exit-code policy at the end of run_setup.
ExitCode(sc, tt) == IF sc = tt THEN 0 ELSE IF sc > 0 THEN 1 ELSE 2

\* Variant: only the empty string counts as no remote.
no_remote_empty_only(url) == url = << >>

\* `not remote_repo or remote_repo.strip() == ""`
no_remote(url) == url = << >> \/ Strip(url) = << >>

\* Variants: the check's answer ignored; the check read the wrong way round.
staged_changes_always(res) == TRUE

staged_changes_inverted(res) == res.exc = "None"

\* The try/except/else around `git diff --cached --quiet`: a
\* CalledProcessError means there are staged changes.
staged_changes(res) == res.exc = "CalledProcessError"

----------------------------------------------------------------------------
(* The post-generation hook, one action per statement that talks to the    *)
(* outside world                                                          *)

envUnchanged == UNCHANGED <<env_file, conda_installed, git_installed, remote_repo>>

\* main: run_setup starts on the freshly constructed ProjectSetup.
Start ==
    /\ pc = "idle"
    /\ pc' = "env_begin"
    /\ UNCHANGED <<repo, success_count, total_tasks, runs, cmds, env_result,
                   git_result, summary, exit_code, snap>>
    /\ envUnchanged /\ UNCHANGED <<preVars, cfgVars>>

\* Variant: the skip path without `self.success_count += 1`.
EnvBeginSkipUncounted ==
    /\ pc = "env_begin"
    /\ total_tasks' = total_tasks + 1
    /\ IF ~env_file
       THEN /\ env_result' = Outcome("Skipped", "No environment.yml found", "")
            /\ pc' = run_setup_next("env", TRUE)
       ELSE /\ env_result' = env_result
            /\ pc' = "env_probe"
    /\ UNCHANGED <<repo, success_count, runs, cmds, git_result, summary, exit_code, snap>>
    /\ envUnchanged /\ UNCHANGED <<preVars, cfgVars>>

\* setup_conda_environment up to the probe: count the task, skip without
\* environment.yml.
EnvBegin ==
    /\ pc = "env_begin"
    /\ total_tasks' = total_tasks + 1
    /\ IF ~env_file
       THEN /\ success_count' = success_count + 1
            /\ env_result' = Outcome("Skipped", "No environment.yml found", "")
            /\ pc' = run_setup_next("env", TRUE)
       ELSE /\ success_count' = success_count
            /\ env_result' = env_result
            /\ pc' = "env_probe"
    /\ UNCHANGED <<repo, runs, cmds, git_result, summary, exit_code, snap>>
    /\ envUnchanged /\ UNCHANGED <<preVars, cfgVars>>

\* check_command_available("conda") and the branch on it.
EnvProbe ==
    /\ pc = "env_probe"
    /\ \E resp \in ProbeResponses(conda_installed) :
         LET a == check_command_available(resp) IN
         /\ cmds' = Append(cmds, Issued(CONDA_PROBE, << >>, resp, a))
         /\ IF a.exc # "None"
            THEN pc' = "crashed" /\ env_result' = env_result
            ELSE IF ~a.value
            THEN /\ env_result' = Outcome("Failed", "Conda not found", CONDA_CREATE)
                 /\ pc' = run_setup_next("env", FALSE)
            ELSE pc' = "env_create" /\ env_result' = env_result
    /\ UNCHANGED <<repo, success_count, total_tasks, runs, git_result, summary,
                   exit_code, snap>>
    /\ envUnchanged /\ UNCHANGED <<preVars, cfgVars>>

\* Variant: the try block counting the task as successful whatever happens.
EnvCreateCountsFailure ==
    /\ pc = "env_create"
    /\ \E resp \in CondaCreateResponses :
         LET r == run_command(resp) IN
         /\ cmds' = Append(cmds, Issued(CONDA_CREATE, << >>, resp, r))
         /\ success_count' = success_count + 1
         /\ IF r.exc = "None"
            THEN /\ env_result' = Outcome("Success", "Conda environment created", "")
                 /\ pc' = run_setup_next("env", TRUE)
            ELSE /\ env_result' = Caught(r, CONDA_CREATE,
                                         "Failed to create conda environment",
                                         "Unexpected error during environment creation")
                 /\ pc' = run_setup_next("env", FALSE)
    /\ UNCHANGED <<repo, total_tasks, runs, git_result, summary, exit_code, snap>>
    /\ envUnchanged /\ UNCHANGED <<preVars, cfgVars>>

\* The try block of setup_conda_environment.
EnvCreate ==
    /\ pc = "env_create"
    /\ \E resp \in CondaCreateResponses :
         LET r == run_command(resp) IN
         /\ cmds' = Append(cmds, Issued(CONDA_CREATE, << >>, resp, r))
         /\ IF r.exc = "None"
            THEN /\ success_count' = success_count + 1
                 /\ env_result' = Outcome("Success", "Conda environment created", "")
                 /\ pc' = run_setup_next("env", TRUE)
            ELSE /\ success_count' = success_count
                 /\ env_result' = Caught(r, CONDA_CREATE,
                                         "Failed to create conda environment",
                                         "Unexpected error during environment creation")
                 /\ pc' = run_setup_next("env", FALSE)
    /\ UNCHANGED <<repo, total_tasks, runs, git_result, summary, exit_code, snap>>
    /\ envUnchanged /\ UNCHANGED <<preVars, cfgVars>>

\* Variant: the version-control task counted twice.
GitBeginCountsTwice ==
    /\ pc = "git_begin"
    /\ total_tasks' = total_tasks + 2
    /\ snap' = repo
    /\ IF no_remote(remote_repo)
       THEN /\ success_count' = success_count + 1
            /\ git_result' = Outcome("Skipped", "No remote repository provided", "")
            /\ pc' = run_setup_next("git", TRUE)
       ELSE /\ success_count' = success_count
            /\ git_result' = git_result
            /\ pc' = "git_probe"
    /\ UNCHANGED <<repo, runs, cmds, env_result, summary, exit_code>>
    /\ envUnchanged /\ UNCHANGED <<preVars, cfgVars>>

\* setup_git_repository up to the probe: count the task, skip without a remote.
GitBegin ==
    /\ pc = "git_begin"
    /\ total_tasks' = total_tasks + 1
    /\ snap' = repo
    /\ IF no_remote(remote_repo)
       THEN /\ success_count' = success_count + 1
            /\ git_result' = Outcome("Skipped", "No remote repository provided", "")
            /\ pc' = run_setup_next("git", TRUE)
       ELSE /\ success_count' = success_count
            /\ git_result' = git_result
            /\ pc' = "git_probe"
    /\ UNCHANGED <<repo, runs, cmds, env_result, summary, exit_code>>
    /\ envUnchanged /\ UNCHANGED <<preVars, cfgVars>>

\* check_command_available("git") and the branch on it.
GitProbe ==
    /\ pc = "git_probe"
    /\ \E resp \in ProbeResponses(git_installed) :
         LET a == check_command_available(resp) IN
         /\ cmds' = Append(cmds, Issued(GIT_PROBE, << >>, resp, a))
         /\ IF a.exc # "None"
            THEN pc' = "crashed" /\ git_result' = git_result
            ELSE IF ~a.value
            THEN /\ git_result' = Outcome("Failed", "Git not found", GIT_INIT)
                 /\ pc' = run_setup_next("git", FALSE)
            ELSE pc' = "git_init" /\ git_result' = git_result
    /\ UNCHANGED <<repo, success_count, total_tasks, runs, env_result, summary,
                   exit_code, snap>>
    /\ envUnchanged /\ UNCHANGED <<preVars, cfgVars>>

\* One required step of the git try block: the command has its `effect` on
\* the repository when it exits 0; the code goes to `next` when run_command
\* returns, and on any exception records Failed and returns False.
GitStep(at, cmd, arg, responses, effect, next) ==
    /\ pc = at
    /\ \E resp \in responses :
         LET r == run_command(resp) IN
         /\ cmds' = Append(cmds, Issued(cmd, arg, resp, r))
         /\ repo' = (IF resp = Exited(0) THEN effect ELSE repo)
         /\ IF r.exc = "None"
            THEN /\ git_result' = git_result
                 /\ pc' = next
            ELSE /\ git_result' = Caught(r, cmd, "Git setup failed",
                                         "Unexpected error during git setup")
                 /\ pc' = run_setup_next("git", FALSE)
    /\ UNCHANGED <<success_count, total_tasks, runs, env_result, summary,
                   exit_code, snap>>
    /\ envUnchanged /\ UNCHANGED <<preVars, cfgVars>>

GitInit == GitStep("git_init", GIT_INIT, << >>, GitInitResponses,
                   GitInitEffect(repo), "git_add")

GitAdd == GitStep("git_add", GIT_ADD, << >>, GitAddResponses,
                  GitAddEffect(repo), "git_diff")

\* The staged-change check: try / except CalledProcessError / else.
GitDiff ==
    /\ pc = "git_diff"
    /\ \E resp \in GitDiffResponses(repo) :
         LET r == run_command(resp) IN
         /\ cmds' = Append(cmds, Issued(GIT_DIFF, << >>, resp, r))
         /\ IF r.exc \notin {"None", "CalledProcessError"}
            THEN /\ git_result' = Caught(r, GIT_DIFF, "Git setup failed",
                                         "Unexpected error during git setup")
                 /\ pc' = run_setup_next("git", FALSE)
            ELSE IF staged_changes(r)
            THEN /\ git_result' = git_result
                 /\ pc' = "git_commit"
            ELSE /\ git_result' = Outcome("Failed", "No changes to commit", GIT_DIFF)
                 /\ pc' = run_setup_next("git", FALSE)
    /\ UNCHANGED <<repo, success_count, total_tasks, runs, env_result, summary,
                   exit_code, snap>>
    /\ envUnchanged /\ UNCHANGED <<preVars, cfgVars>>

GitCommit == GitStep("git_commit", GIT_COMMIT, << >>, GitCommitResponses(repo),
                     GitCommitEffect(repo), "git_remote")

GitRemoteAdd == GitStep("git_remote", GIT_REMOTE, Strip(remote_repo),
                        GitRemoteAddResponses(repo),
                        GitRemoteAddEffect(repo, Strip(remote_repo)), "git_branch")

GitBranch == GitStep("git_branch", GIT_BRANCH, << >>, GitBranchResponses,
                     GitBranchEffect(repo), "git_push")

\* The last step, and the success path that follows it.
GitPush ==
    /\ pc = "git_push"
    /\ \E resp \in GitPushResponses :
         LET r == run_command(resp) IN
         /\ cmds' = Append(cmds, Issued(GIT_PUSH, << >>, resp, r))
         /\ repo' = (IF resp = Exited(0) THEN GitPushEffect(repo) ELSE repo)
         /\ IF r.exc = "None"
            THEN /\ success_count' = success_count + 1
                 /\ git_result' = Outcome("Success", "Git repository initialized and pushed", "")
                 /\ pc' = run_setup_next("git", TRUE)
            ELSE /\ success_count' = success_count
                 /\ git_result' = Caught(r, GIT_PUSH, "Git setup failed",
                                         "Unexpected error during git setup")
                 /\ pc' = run_setup_next("git", FALSE)
    /\ UNCHANGED <<total_tasks, runs, env_result, summary, exit_code, snap>>
    /\ envUnchanged /\ UNCHANGED <<preVars, cfgVars>>

\* The summary and the return of run_setup; main hands the value to sys.exit.
Summary ==
    /\ pc = "summary"
    /\ summary' = <<success_count, total_tasks>>
    /\ exit_code' = ExitCode(success_count, total_tasks)
    /\ pc' = "done"
    /\ UNCHANGED <<repo, success_count, total_tasks, runs, cmds, env_result,
                   git_result, snap>>
    /\ envUnchanged /\ UNCHANGED <<preVars, cfgVars>>

\* The hook is launched again on the same project root: main builds a new
\* ProjectSetup.
Launch ==
    /\ pc \in {"done", "crashed"}
    /\ runs < MaxRuns
    /\ runs' = runs + 1
    /\ pc' = "idle"
    /\ success_count' = 0
    /\ total_tasks' = 0
    /\ cmds' = << >>
    /\ env_result' = NoResult
    /\ git_result' = NoResult
    /\ summary' = << >>
    /\ exit_code' = -1
    /\ snap' = repo
    /\ UNCHANGED repo
    /\ envUnchanged /\ UNCHANGED <<preVars, cfgVars>>

\* run_setup is called once more on the ProjectSetup whose run_setup has
\* returned: nothing in run_setup or in the two tasks sets the counters back,
\* they go on from where the earlier call left them. The command log and
\* the results start again: they are what this call does.
Rerun ==
    /\ pc = "done"
    /\ runs < MaxRuns
    /\ runs' = runs + 1
    /\ pc' = "env_begin"
    /\ cmds' = << >>
    /\ env_result' = NoResult
    /\ git_result' = NoResult
    /\ summary' = << >>
    /\ exit_code' = -1
    /\ snap' = repo
    /\ UNCHANGED <<repo, success_count, total_tasks>>
    /\ envUnchanged /\ UNCHANGED <<preVars, cfgVars>>

\* Between two launches the user changes files of the project.
EditTree ==
    /\ pc = "done"
    /\ ~repo.dirty
    /\ repo' = [repo EXCEPT !.dirty = TRUE]
    /\ UNCHANGED <<success_count, total_tasks, pc, runs, cmds, env_result,
                   git_result, summary, exit_code, snap>>
    /\ envUnchanged /\ UNCHANGED <<preVars, cfgVars>>

----------------------------------------------------------------------------
(* The pre-generation hook: hooks/pre_gen_project.py *)

MAX_DESCRIPTION_LENGTH == 100
MIN_PYTHON_VERSION == <<3, 12>>

Lower == {"a", "b", "c", "d", "e", "f", "g", "h", "i", "j", "k", "l", "m",
          "n", "o", "p", "q", "r", "s", "t", "u", "v", "w", "x", "y", "z"}
Upper == {"A", "B", "C", "D", "E", "F", "G", "H", "I", "J", "K", "L", "M",
          "N", "O", "P", "Q", "R", "S", "T", "U", "V", "W", "X", "Y", "Z"}
Letter == Lower \cup Upper
Digit == {"0", "1", "2", "3", "4", "5", "6", "7", "8", "9"}

\* re.match of r"^<body>$": `$` matches at the end of the string and also
\* just before a newline that ends it, so <body> has to match the whole
\* string or the string without that newline.
UpToDollar(s) ==
    {s} \cup (IF s # << >> /\ s[Len(s)] = "\n" THEN {SubSeq(s, 1, Len(s) - 1)} ELSE {})

\* [a-zA-Z0-9_]+
WordBody(s) == s # << >> /\ Chars(s) \subseteq (Letter \cup Digit \cup {"_"})

\* [a-zA-Z0-9._%+-]+@[a-zA-Z0-9.-]+\.[a-zA-Z]{2,}
EmailBody(s) ==
    \E i \in 1..Len(s) : \E j \in 1..Len(s) :
        /\ s[i] = "@"
        /\ i >= 2
        /\ Chars(SubSeq(s, 1, i - 1)) \subseteq (Letter \cup Digit \cup {".", "_", "%", "+", "-"})
        /\ s[j] = "."
        /\ j >= i + 2
        /\ Chars(SubSeq(s, i + 1, j - 1)) \subseteq (Letter \cup Digit \cup {".", "-"})
        /\ Len(s) - j >= 2
        /\ Chars(SubSeq(s, j + 1, Len(s))) \subseteq Letter

\* Comparison of two tuples of numbers, as Python orders tuples.
RECURSIVE TupleLess(_, _)
TupleLess(a, b) ==
    IF b = << >> THEN FALSE
    ELSE IF a = << >> THEN TRUE
    ELSE IF a[1] # b[1] THEN a[1] < b[1]
    ELSE TupleLess(Tail(a), Tail(b))

\* What a validator does to the process: the lines it prints on the error
\* stream, and the status it exits the process with (-1: it returns).
Line(level, text) == [level |-> level, text |-> text]
Pass == [lines |-> << >>, exit |-> -1]

\* A call that never comes back: the process stays inside it.
Blocked == [lines |-> << >>, exit |-> -2]

\* Variant: error() without its sys.exit(1).
error_without_exit(message) == [lines |-> <<Line("ERROR", message)>>, exit |-> -1]

\* error(message): print and sys.exit(1).
error(message) == [lines |-> <<Line("ERROR", message)>>, exit |-> 1]

\* warning(message): print only.
warning(message) == [lines |-> <<Line("WARNING", message)>>, exit |-> -1]

\* Variant: validate_repo_name without its second check.
validate_repo_name_any_start(name) ==
    IF name = << >> THEN error(<<"Repository name cannot be empty">>)
    ELSE IF ~(\E t \in UpToDollar(name) : WordBody(t))
    THEN error(<<"It must contain only letters, numbers, and underscores.">>)
    ELSE Pass

validate_repo_name(name) ==
    IF name = << >> THEN error(<<"Repository name cannot be empty">>)
    ELSE IF ~(\E t \in UpToDollar(name) : WordBody(t))
    THEN error(<<"It must contain only letters, numbers, and underscores.">>)
    ELSE IF name[1] \notin (Letter \cup {"_"})
    THEN error(<<"It must start with a letter or underscore.">>)
    ELSE Pass

problematic_chars == <<"/", "\\", ":", "*", "?", "\"", "<", ">", "|">>

\* The warnings of the loop over problematic_chars, from the k-th on.
RECURSIVE PathWarnings(_, _)
PathWarnings(name, k) ==
    IF k > Len(problematic_chars) THEN << >>
    ELSE (IF problematic_chars[k] \in Chars(name)
          THEN warning(<<"contains character", problematic_chars[k]>>).lines
          ELSE << >>) \o PathWarnings(name, k + 1)

\* Variant: a problematic character reported with error() instead.
validate_project_name_unsafe_fails(name) ==
    IF name = << >> \/ Strip(name) = << >>
    THEN error(<<"Project name cannot be empty">>)
    ELSE IF PathWarnings(name, 1) # << >>
    THEN error(PathWarnings(name, 1)[1].text)
    ELSE Pass

validate_project_name(name) ==
    IF name = << >> \/ Strip(name) = << >>
    THEN error(<<"Project name cannot be empty">>)
    ELSE [lines |-> PathWarnings(name, 1), exit |-> -1]

\* Variant: validate_author_email without the early return for no email.
validate_author_email_required(email) ==
    IF ~(\E t \in UpToDollar(email) : EmailBody(t))
    THEN error(<<"is not a valid email address">>)
    ELSE Pass

validate_author_email(email) ==
    IF email = << >> THEN Pass
    ELSE IF ~(\E t \in UpToDollar(email) : EmailBody(t))
    THEN error(<<"is not a valid email address">>)
    ELSE Pass

\* Variant: the limit compared with >=.
validate_description_off_by_one(desc) ==
    IF Len(desc) >= MAX_DESCRIPTION_LENGTH THEN error(<<"Description is too long">>)
    ELSE Pass

validate_description(desc) ==
    IF Len(desc) > MAX_DESCRIPTION_LENGTH THEN error(<<"Description is too long">>)
    ELSE Pass

\* Variant: the value trimmed before it is compared.
validate_setup_environment_trimmed(setup) ==
    IF Strip(setup) \notin {<<"y">>, <<"n">>}
    THEN error(<<"Setup environment must be 'y' or 'n'">>)
    ELSE Pass

validate_setup_environment(setup) ==
    IF setup \notin {<<"y">>, <<"n">>}
    THEN error(<<"Setup environment must be 'y' or 'n'">>)
    ELSE Pass

check_python_version(current_version) ==
    IF TupleLess(current_version, MIN_PYTHON_VERSION)
    THEN error(<<"Python 3.12+ is required">>)
    ELSE Pass

\* What the package index does with the request: answers with an HTTP
\* status, or the request fails below HTTP (no route, DNS, reset), or the
\* connection is accepted and no answer ever comes.
HttpStatus(code) == [kind |-> "http", code |-> code]
NetworkError == [kind |-> "error", code |-> 0]
NoAnswer == [kind |-> "silence", code |-> 0]

\* urllib.request.urlopen(url): a 2xx answer is returned, any other status is
\* raised as HTTPError, a failed request as URLError. No timeout is passed,
\* so the socket has none and the call waits for the answer without limit.
urlopen(answer) ==
    IF answer.kind = "silence" THEN [exc |-> "Never", status |-> 0]
    ELSE IF answer.kind = "error" THEN [exc |-> "URLError", status |-> 0]
    ELSE IF answer.code >= 200 /\ answer.code < 300
    THEN [exc |-> "None", status |-> answer.code]
    ELSE [exc |-> "HTTPError", status |-> answer.code]

check_pypi_name_conflict(name, answer) ==
    LET response == urlopen(answer) IN
    IF response.exc = "Never" THEN Blocked
    ELSE IF response.exc = "None"
    THEN IF response.status = 200
         THEN warning(<<"already exists in PyPI">>)
         ELSE Pass
    ELSE IF response.exc = "HTTPError"
    THEN IF response.status = 404
         THEN Pass
         ELSE warning(<<"Could not check PyPI for package name conflicts">>)
    ELSE warning(<<"Could not check PyPI for package name conflicts">>)

\* Variant: the first two calls of main swapped.
main_calls_swapped ==
    <<"validate_project_name", "validate_repo_name", "validate_author_email",
      "validate_description", "validate_setup_environment",
      "check_python_version", "check_pypi_name_conflict">>

\* Variant: the name-availability check called first.
main_calls_lookup_first ==
    <<"check_pypi_name_conflict", "validate_repo_name", "validate_project_name",
      "validate_author_email", "validate_description",
      "validate_setup_environment", "check_python_version">>

\* The calls of main, in order.
main_calls ==
    <<"validate_repo_name", "validate_project_name", "validate_author_email",
      "validate_description", "validate_setup_environment",
      "check_python_version", "check_pypi_name_conflict">>

\* The call of validator v with the module-level value main passes to it.
Call(v, p) ==
    CASE v = "validate_repo_name" -> validate_repo_name(p.repo_name)
      [] v = "validate_project_name" -> validate_project_name(p.project_name)
      [] v = "validate_author_email" -> validate_author_email(p.author_email)
      [] v = "validate_description" -> validate_description(p.description)
      [] v = "validate_setup_environment" -> validate_setup_environment(p.setup_environment)
      [] v = "check_python_version" -> check_python_version(p.version_info)
      [] v = "check_pypi_name_conflict" -> check_pypi_name_conflict(p.repo_name, p.pypi)

\* main calls its k-th validator; a validator that exits ends the process,
\* and main gets no further while a call has not come back.
Validate(k) ==
    /\ vpc = k
    /\ k <= Len(main_calls)
    /\ LET v == main_calls[k]
           result == Call(v, params)
       IN /\ result # Blocked
          /\ ran' = Append(ran, v)
          /\ stderr' = stderr \o result.lines
          /\ IF result.exit # -1
             THEN vpc' = 0 /\ pre_exit' = result.exit
             ELSE vpc' = k + 1 /\ pre_exit' = pre_exit
    /\ UNCHANGED params
    /\ UNCHANGED <<postVars, cfgVars>>

ValidateRepoName == Validate(1)
ValidateProjectName == Validate(2)
ValidateAuthorEmail == Validate(3)
ValidateDescription == Validate(4)
ValidateSetupEnvironment == Validate(5)
CheckPythonVersion == Validate(6)
CheckPypiNameConflict == Validate(7)

\* main prints "All parameters are valid!" and returns; the script ends with
\* status 0.
PreReturn ==
    /\ vpc = Len(main_calls) + 1
    /\ vpc' = 0
    /\ pre_exit' = 0
    /\ UNCHANGED <<params, ran, stderr>>
    /\ UNCHANGED <<postVars, cfgVars>>

NextPre ==
    \/ ValidateRepoName \/ ValidateProjectName \/ ValidateAuthorEmail
    \/ ValidateDescription \/ ValidateSetupEnvironment \/ CheckPythonVersion
    \/ CheckPypiNameConflict \/ PreReturn

RunStep ==
    \/ Start \/ EnvBegin \/ EnvProbe \/ EnvCreate
    \/ GitBegin \/ GitProbe \/ GitInit \/ GitAdd \/ GitDiff \/ GitCommit
    \/ GitRemoteAdd \/ GitBranch \/ GitPush \/ Summary

Next == RunStep \/ Launch \/ EditTree

\* The hook's class used by a caller that may also call run_setup again on
\* an object it has.
NextReuse == RunStep \/ Launch \/ Rerun \/ EditTree

----------------------------------------------------------------------------
(* The settings classes of the generated project: src/project_configs.py *)

\* The Python values a keyword argument is given: a key that is absent, None,
\* a string, a Path, a number. p holds the components of the path (or of the
\* string that names one; no component is the empty string), n the number.
Missing == [t |-> "missing", p |-> << >>, n |-> 0]
None == [t |-> "None", p |-> << >>, n |-> 0]
Str(p) == [t |-> "str", p |-> p, n |-> 0]
PathOf(p) == [t |-> "Path", p |-> p, n |-> 0]
Number(n) == [t |-> "int", p |-> << >>, n |-> n]

\* `not values.get(key)` is ~Truthy: dict.get gives None for an absent key,
\* a Path is always true, a string when it is not empty, a number when not 0.
Truthy(v) ==
    CASE v.t = "str" -> v.p # << >>
      [] v.t = "Path" -> TRUE
      [] v.t = "int" -> v.n # 0
      [] OTHER -> FALSE

\* Path.joinpath
joinpath(root, name) == PathOf(Append(root.p, name))

RootKey(cls) == IF cls = "DataFolderSettings" THEN "data_root" ELSE "report_root"

\* The folder names the loop of validate_after goes through.
Subfolders(cls) ==
    IF cls = "DataFolderSettings"
    THEN {"external", "interim", "processed", "raw"}
    ELSE {"figures", "tables"}

Keys(cls) == {RootKey(cls)} \cup Subfolders(cls)

\* What a validator or a constructor gives: the exception raised ("None"
\* when it returns) and the value returned.
Gives(exc, val) == [exc |-> exc, val |-> val]

\* Variant: validate_after setting every subfolder to its default.
validate_after_overwrites(cls, vals) ==
    LET root_folder == vals[RootKey(cls)] IN
    IF ~Truthy(root_folder) THEN Gives("ValueError", vals)
    ELSE IF root_folder.t \notin {"str", "Path"} THEN Gives("ValueError", vals)
    ELSE Gives("None",
               [k \in DOMAIN vals |->
                   IF k \in Subfolders(cls)
                   THEN joinpath(PathOf(root_folder.p), k)
                   ELSE vals[k]])

\* DataFolderSettings.validate_after and ReportFolderSettings.validate_after
\* (mode="before"): the same code but for the names.
validate_after(cls, vals) ==
    LET root_folder == vals[RootKey(cls)] IN
    IF ~Truthy(root_folder) THEN Gives("ValueError", vals)
    ELSE IF root_folder.t \notin {"str", "Path"} THEN Gives("ValueError", vals)
    ELSE Gives("None",
               [k \in DOMAIN vals |->
                   IF k \in Subfolders(cls) /\ ~Truthy(vals[k])
                   THEN joinpath(PathOf(root_folder.p), k)
                   ELSE vals[k]])

\* Validation of the fields, all of type DirectoryPath: each has to be a
\* string or a Path that names an existing directory, and becomes a Path.
validate_fields(vals) ==
    IF \A k \in DOMAIN vals : vals[k].t \in {"str", "Path"} /\ vals[k].p \in dirs
    THEN Gives("None", [k \in DOMAIN vals |-> PathOf(vals[k].p)])
    ELSE Gives("ValidationError", vals)

\* The constructor of a folder-settings class: the "before" validator, whose
\* ValueError pydantic turns into a ValidationError, then the fields.
FolderSettings(cls, kwargs) ==
    LET before == validate_after(cls, kwargs) IN
    IF before.exc # "None" THEN Gives("ValidationError", kwargs)
    ELSE validate_fields(before.val)

\* cls(<root key>=root) with no other keyword argument.
OnlyRoot(cls, root) ==
    [k \in Keys(cls) |-> IF k = RootKey(cls) THEN root ELSE Missing]

\* Path(__file__).resolve().parents[1]
DEFAULT_ROOT == PathOf(<<"project">>)

\* ProjectPaths.fill_fields (mode="before"). joinpath is looked up on
\* whatever `root` was given: a string or a number has no such attribute.
fill_fields(vals) ==
    LET root_folder == IF Truthy(vals.root) THEN vals.root ELSE DEFAULT_ROOT
        data == FolderSettings("DataFolderSettings",
                    OnlyRoot("DataFolderSettings", joinpath(root_folder, "data")))
        report == FolderSettings("ReportFolderSettings",
                    OnlyRoot("ReportFolderSettings", joinpath(root_folder, "report")))
    IN IF root_folder.t # "Path" THEN Gives("AttributeError", vals)
       ELSE IF data.exc # "None" THEN Gives(data.exc, vals)
       ELSE IF report.exc # "None" THEN Gives(report.exc, vals)
       ELSE Gives("None", [root |-> root_folder,
                           data_folder |-> data.val,
                           report_folder |-> report.val])

\* What the constructor raises when its "before" validator raises exc:
\* pydantic reports a ValueError (its own ValidationError is one) as a
\* ValidationError and lets anything else through.
Surfaces(exc) == IF exc = "ValueError" THEN "ValidationError" ELSE exc

\* The "before" validator of the class being instantiated; `values` keeps
\* what it gave.
BeforeValidator ==
    /\ cpc = "called"
    /\ LET r == IF call.cls = "ProjectPaths" THEN fill_fields(call.kwargs)
                ELSE validate_after(call.cls, call.kwargs)
       IN /\ values' = r
          /\ IF r.exc = "None"
             THEN cpc' = "fields" /\ built' = built
             ELSE cpc' = "raised" /\ built' = Gives(Surfaces(r.exc), << >>)
    /\ UNCHANGED <<dirs, call>>
    /\ UNCHANGED <<postVars, preVars>>

\* The fields are validated and the constructor returns the object, or
\* raises. Of ProjectPaths only `root` is left to check: the two settings
\* objects are instances of their classes already.
FieldValidation ==
    /\ cpc = "fields"
    /\ LET r == IF call.cls = "ProjectPaths"
                THEN IF values.val.root.p \in dirs THEN Gives("None", values.val)
                     ELSE Gives("ValidationError", values.val)
                ELSE validate_fields(values.val)
       IN IF r.exc = "None"
          THEN cpc' = "built" /\ built' = Gives("None", r.val)
          ELSE cpc' = "raised" /\ built' = Gives(r.exc, << >>)
    /\ UNCHANGED <<dirs, call, values>>
    /\ UNCHANGED <<postVars, preVars>>

NextPaths == BeforeValidator \/ FieldValidation

----------------------------------------------------------------------------
(* Initial states and specifications *)

\* Remote URLs the template is rendered with.
RemoteRepos ==
    { << >>, <<" ", " ">>, <<"g", "i", "t", "@", "h", ":", "r">>,
      <<" ", "g", "i", "t", "@", "h", ":", "r", "\n">> }

\* Parameters that pass validation without a warning.
PassingParams ==
    [repo_name |-> <<"m", "y", "_", "p">>,
     project_name |-> <<"M", "y", " ", "P">>,
     author_email |-> << >>,
     description |-> <<"o", "k">>,
     setup_environment |-> <<"n">>,
     version_info |-> <<3, 12, 0>>,
     pypi |-> HttpStatus(404)]

\* The post-generation hook has not been launched.
PostFresh ==
    /\ pc = "idle"
    /\ runs = 1
    /\ success_count = 0
    /\ total_tasks = 0
    /\ cmds = << >>
    /\ env_result = NoResult
    /\ git_result = NoResult
    /\ summary = << >>
    /\ exit_code = -1
    /\ snap = repo

\* No settings object is being built.
CfgIdle ==
    /\ dirs = {}
    /\ call = << >>
    /\ values = << >>
    /\ built = << >>
    /\ cpc = "none"

\* The post-generation hook starts in a generated project: validation has
\* passed, the tree has been rendered, no repository exists yet.
Init ==
    /\ env_file \in BOOLEAN
    /\ conda_installed \in BOOLEAN
    /\ git_installed \in BOOLEAN
    /\ remote_repo \in RemoteRepos
    /\ repo \in {NoRepo, [NoRepo EXCEPT !.dirty = FALSE]}
    /\ PostFresh
    /\ CfgIdle
    /\ params = PassingParams
    /\ vpc = 0
    /\ ran = main_calls
    /\ stderr = << >>
    /\ pre_exit = 0

Spec == Init /\ [][Next]_vars

SpecReuse == Init /\ [][NextReuse]_vars

\* Every external command the hook waits for ends, so the run goes on.
FairSpec == Spec /\ WF_vars(RunStep)

\* Rendered parameters and host facts the pre-generation hook is run with.
Text(n) == [i \in 1..n |-> "x"]

RepoNames ==
    { << >>, <<"m", "y", "_", "p">>, <<"m", "y", "-", "p">>, <<"1", "p">> }
ProjectNames ==
    { << >>, <<" ">>, <<"M", "y", " ", "P">>, <<"a", "/", "b", "?">> }
AuthorEmails ==
    { << >>, <<"a", "@", "b", ".", "i", "o">>, <<"a", "@", "b">>,
      <<"a", ".", "b", "@", "c", "-", "d", ".", "o", "r", "g">> }
Descriptions ==
    { Text(0), Text(MAX_DESCRIPTION_LENGTH), Text(MAX_DESCRIPTION_LENGTH + 1) }
SetupFlags == { <<"y">>, <<"n">>, <<"Y">>, << >> }
VersionInfos == { <<3, 11, 9>>, <<3, 12, 0>>, <<3, 13, 1>> }
PypiAnswers ==
    { HttpStatus(200), HttpStatus(204), HttpStatus(404), HttpStatus(500),
      NetworkError, NoAnswer }

InitPre ==
    /\ params \in [repo_name : RepoNames,
                   project_name : ProjectNames,
                   author_email : AuthorEmails,
                   description : Descriptions,
                   setup_environment : SetupFlags,
                   version_info : VersionInfos,
                   pypi : PypiAnswers]
    /\ vpc = 1
    /\ ran = << >>
    /\ stderr = << >>
    /\ pre_exit = -1
    /\ env_file = FALSE
    /\ conda_installed = FALSE
    /\ git_installed = FALSE
    /\ remote_repo = << >>
    /\ repo = NoRepo
    /\ PostFresh
    /\ CfgIdle

SpecPre == InitPre /\ [][NextPre]_vars

\* Every string of at most n characters of the alphabet.
Strings(alphabet, n) == UNION {[1..k -> alphabet] : k \in 0..n}

\* The values each validator is tried on: every short string over the
\* characters its checks tell apart.
RepoNameInputs == Strings({"a", "Z", "1", "_", "-", " ", "\n"}, MaxLen)
DescriptionInputs ==
    {[i \in 1..n |-> c] : n \in 0..MaxDescriptionLen, c \in {"x", " ", "\n"}}

ProjectNameInputs ==
    Strings({"a", " ", "\n", "/", "?"}, MaxLen)
    \cup {<<problematic_chars[k]>> : k \in 1..Len(problematic_chars)}
    \cup {<<"a", problematic_chars[k], " ">> : k \in 1..Len(problematic_chars)}
    \cup { problematic_chars, <<"\t">>, <<"\r", "\f">>, <<"\t", "a", "\r">>,
           <<" ", "\t", "\n", "\r", "\f">> }

SetupInputs == Strings({"y", "n", "Y", "N", " ", "\n"}, MaxLen)

EmailInputs ==
    Strings({"a", "@", ".", "-"}, MaxEmailLen)
    \cup { <<"a", "@", "b", ".", "c", "1">>, <<"a", "@", "b", ".", "i", "o", "\n">>,
           <<" ", "a", "@", "b", ".", "i", "o">>, <<"a", "%", "+", "_", "1", "@", "B", ".", "I", "o">>,
           <<"a", "@", "b", "%", ".", "i", "o">>, <<"a", "@", "b", "_", ".", "i", "o">>,
           <<"a", "@", "1", ".", "i", "o">>, <<"a", " ", "@", "b", ".", "i", "o">>,
           <<"a", "@", "b", ".", "i", "o", "\n", "\n">>, <<"a", "@", "b", ".", "i", "o", " ">> }

\* The pre-generation hook run with one parameter drawn from its inputs and
\* the others valid.
InitInputs ==
    /\ params \in
          {[PassingParams EXCEPT !.repo_name = n] : n \in RepoNameInputs}
          \cup {[PassingParams EXCEPT !.description = d] : d \in DescriptionInputs}
          \cup {[PassingParams EXCEPT !.author_email = e] : e \in EmailInputs}
          \cup {[PassingParams EXCEPT !.project_name = n] : n \in ProjectNameInputs}
          \cup {[PassingParams EXCEPT !.setup_environment = f] : f \in SetupInputs}
    /\ vpc = 1
    /\ ran = << >>
    /\ stderr = << >>
    /\ pre_exit = -1
    /\ env_file = FALSE
    /\ conda_installed = FALSE
    /\ git_installed = FALSE
    /\ remote_repo = << >>
    /\ repo = NoRepo
    /\ PostFresh
    /\ CfgIdle

SpecInputs == InitInputs /\ [][NextPre]_vars

\* File systems the settings classes are used on: the generated project
\* with all its folders and a folder of the user's beside them; the same
\* without data/raw; nothing at all.
ProjectTree ==
    { <<"project">>, <<"project", "data">>, <<"project", "report">>,
      <<"mnt">>, <<"mnt", "data">>, <<"mnt", "report">> }
    \cup {<<"project", "data", k>> : k \in Subfolders("DataFolderSettings")}
    \cup {<<"project", "report", k>> : k \in Subfolders("ReportFolderSettings")}
    \cup {<<"mnt", "data", k>> : k \in Subfolders("DataFolderSettings")}
    \cup {<<"mnt", "report", k>> : k \in Subfolders("ReportFolderSettings")}
    \cup {<<"mnt", k>> : k \in Subfolders("DataFolderSettings")}
    \cup {<<"mnt", k>> : k \in Subfolders("ReportFolderSettings")}

DirSets == { ProjectTree, ProjectTree \ {<<"project", "data", "raw">>}, {} }

\* Values a root folder is given, and values subfolder k is given.
RootValues(r) ==
    { Missing, None, Str(<< >>), Str(r), PathOf(r), Number(0), Number(5) }
SubValues(k) ==
    { Missing, None, Str(<< >>), Str(<<"mnt", k>>), PathOf(<<"mnt", k>>) }

\* Keyword arguments of a folder-settings class.
FolderKwargs(cls, r) ==
    { kw \in [Keys(cls) -> RootValues(r) \cup UNION {SubValues(k) : k \in Subfolders(cls)}] :
        /\ kw[RootKey(cls)] \in RootValues(r)
        /\ \A k \in Subfolders(cls) : kw[k] \in SubValues(k) }

\* A settings object built earlier on root folder r with its default
\* subfolders, and what a caller passes to ProjectPaths for it: nothing,
\* None, the object on the project's own folder or one on the user's.
SettingsAt(cls, r) ==
    [k \in Keys(cls) |-> IF k = RootKey(cls) THEN PathOf(r) ELSE PathOf(Append(r, k))]
SettingsGiven(cls, name) ==
    { Missing, None, SettingsAt(cls, <<"project", name>>), SettingsAt(cls, <<"mnt", name>>) }

Calls ==
    {[cls |-> "DataFolderSettings", kwargs |-> kw] :
        kw \in FolderKwargs("DataFolderSettings", <<"project", "data">>)}
    \cup {[cls |-> "ReportFolderSettings", kwargs |-> kw] :
        kw \in FolderKwargs("ReportFolderSettings", <<"project", "report">>)}
    \cup {[cls |-> "ProjectPaths", kwargs |-> kw] :
        kw \in [root : {Missing, PathOf(<<"project">>), PathOf(<<"mnt">>), Str(<<"mnt">>)},
                data_folder : SettingsGiven("DataFolderSettings", "data"),
                report_folder : SettingsGiven("ReportFolderSettings", "report")]}

\* A class of project_configs.py is instantiated.
InitPaths ==
    /\ dirs \in DirSets
    /\ call \in Calls
    /\ values = << >>
    /\ built = << >>
    /\ cpc = "called"
    /\ params = PassingParams
    /\ vpc = 0
    /\ ran = main_calls
    /\ stderr = << >>
    /\ pre_exit = 0
    /\ env_file = FALSE
    /\ conda_installed = FALSE
    /\ git_installed = FALSE
    /\ remote_repo = << >>
    /\ repo = NoRepo
    /\ PostFresh

SpecPaths == InitPaths /\ [][NextPaths]_vars

----------------------------------------------------------------------------
(* Properties of the post-generation hook *)

Succeeded(r) == r.status \in {"Success", "Skipped"}
Finished(r) == r.status \in {"Success", "Skipped", "Failed"}

\* setup_git_repository has been entered (its first statement counts it).
GitStarted == total_tasks = 2

GitPcs == {"git_begin", "git_probe", "git_init", "git_add", "git_diff",
           "git_commit", "git_remote", "git_branch", "git_push"}

RunState ==
    IF pc = "idle" THEN "NotStarted"
    ELSE IF pc = "done" THEN "Completed"
    ELSE IF pc = "crashed" THEN "Aborted"
    ELSE "Running"

GitOrder == <<GIT_INIT, GIT_ADD, GIT_DIFF, GIT_COMMIT, GIT_REMOTE, GIT_BRANCH, GIT_PUSH>>

IsGitStep(e) == \E i \in 1..Len(GitOrder) : e.cmd = GitOrder[i]

\* The steps of the version-control task issued so far, in order.
GitSteps == SelectSeq(cmds, IsGitStep)

\* A step lets the task go on: exit 0, and for the staged-change check the
\* exit status 1 that reports staged changes.
Completed(e) == e.rc = (IF e.cmd = GIT_DIFF THEN 1 ELSE 0)

IssuedCmd(c) == \E i \in 1..Len(cmds) : cmds[i].cmd = c

\* C1: when run_setup returns, its value is 0 exactly when both tasks ended
\* Success or Skipped, 1 exactly when one ended Success or Skipped and the
\* other Failed, and 2 exactly when both ended Failed.
C1_ExitCodePolicy ==
    pc = "done" =>
        /\ Finished(env_result) /\ Finished(git_result)
        /\ exit_code = 0 <=> (Succeeded(env_result) /\ Succeeded(git_result))
        /\ exit_code = 1 <=> (Succeeded(env_result) # Succeeded(git_result))
        /\ exit_code = 2 <=> (~Succeeded(env_result) /\ ~Succeeded(git_result))

C1_Witness ==
    /\ pc = "done"
    /\ env_result.status = "Skipped"
    /\ git_result.status = "Failed"
    /\ exit_code = 1

\* C2: the version-control task is entered only after the environment task
\* has finished; the statement that follows the environment task's return is
\* the call of the version-control task whatever the outcome was; every run
\* that finishes the environment task goes on to enter the version-control
\* task, and no run ends without having entered it.
C2_GitAfterEnv ==
    /\ [](GitStarted => Finished(env_result))
    /\ [](pc \in GitPcs \ {"git_begin"} => GitStarted)
    /\ [][(~Finished(env_result) /\ Finished(env_result')) => pc' = "git_begin"]_vars
    /\ [](pc = "done" => GitStarted)
    /\ \A st \in {"Success", "Skipped", "Failed"} :
           (env_result.status = st /\ ~GitStarted) ~> (env_result.status = st /\ GitStarted)

C2_Witness ==
    /\ env_result = Outcome("Failed", "Unexpected error during environment creation",
                            CONDA_CREATE)
    /\ GitStarted
    /\ pc = "git_probe"

C3_WitnessFailed ==
    /\ pc = "done"
    /\ git_result = Outcome("Failed", "Git setup failed", GIT_REMOTE)
    /\ Len(GitSteps) = 5

\* C5: a run goes NotStarted -> Running -> Completed and never ends on an
\* uncaught error; once started it reaches Completed; in Completed both tasks
\* have run and have a result, the summary line has been printed with the
\* two counters, and the value returned is 0, 1 or 2. Before Completed no
\* summary has been printed and nothing has been returned.
C5_AlwaysCompletes ==
    /\ [](RunState # "Aborted")
    /\ [][RunState' # RunState =>
            <<RunState, RunState'>> \in {<<"NotStarted", "Running">>,
                                         <<"Running", "Completed">>,
                                         <<"Completed", "NotStarted">>}]_vars
    /\ [](RunState = "Completed" =>
            /\ total_tasks = 2
            /\ Finished(env_result) /\ Finished(git_result)
            /\ summary = <<success_count, total_tasks>>
            /\ exit_code \in {0, 1, 2})
    /\ [](RunState # "Completed" => summary = << >> /\ exit_code = -1)
    /\ \A n \in 1..MaxRuns :
           (runs = n /\ RunState \in {"NotStarted", "Running"})
               ~> (runs = n /\ RunState = "Completed")

C5_Witness ==
    /\ RunState = "Completed"
    /\ env_result = Outcome("Failed", "Conda not found", CONDA_CREATE)
    /\ git_result = Outcome("Failed", "Unexpected error during git setup", GIT_ADD)
    /\ summary = <<0, 2>>
    /\ exit_code = 2

\* C6: with environment.yml present and conda unavailable, the environment
\* task is recorded Failed, the version-control task still runs to a result
\* of its own, and run_setup returns 1 if that result is Success or Skipped
\* and 2 if it is Failed.
C6_CondaMissing ==
    (env_file /\ ~conda_installed) =>
        /\ Finished(env_result) => env_result.status = "Failed"
        /\ pc = "done" =>
              /\ env_result = Outcome("Failed", "Conda not found", CONDA_CREATE)
              /\ GitStarted /\ Finished(git_result)
              /\ exit_code = (IF Succeeded(git_result) THEN 1 ELSE 2)

C6_Witness ==
    /\ env_file /\ ~conda_installed
    /\ pc = "done"
    /\ git_result.status = "Success"
    /\ exit_code = 1

C6_WitnessTotal ==
    /\ env_file /\ ~conda_installed
    /\ pc = "done"
    /\ git_result.status = "Failed"
    /\ exit_code = 2

\* C7: with no remote URL (empty, or only whitespace) and no environment.yml,
\* both tasks are recorded Skipped, the summary shows 2 successful tasks out
\* of 2 and run_setup returns 0.
C7_BothSkipped ==
    (pc = "done" /\ ~env_file /\ Strip(remote_repo) = << >>) =>
        /\ env_result.status = "Skipped"
        /\ git_result.status = "Skipped"
        /\ summary = <<2, 2>>
        /\ exit_code = 0

C7_Witness ==
    /\ pc = "done"
    /\ ~env_file
    /\ remote_repo = << >>
    /\ env_result.status = "Skipped" /\ git_result.status = "Skipped"
    /\ summary = <<2, 2>>

AlreadySetUp ==
    /\ snap.init
    /\ snap.commits >= 1
    /\ snap.remote # << >>
    /\ ~snap.dirty
    /\ ~snap.staged

RunCommandCalls == SelectSeq(cmds, LAMBDA e : e.cmd \notin {CONDA_PROBE, GIT_PROBE})

\* C10 as stated: run_command never raises on a non-zero exit; it returns the
\* exit code to its caller.
C10_ReturnsNonZero ==
    \A i \in 1..Len(RunCommandCalls) :
        RunCommandCalls[i].rc > 0 => RunCommandCalls[i].exc = "None"

\* C10, amended: run_command raises CalledProcessError exactly when the
\* command exits non-zero, and returns to its caller exactly when the command
\* exits 0.
C10_RaisesOnNonZero ==
    \A i \in 1..Len(RunCommandCalls) :
        LET e == RunCommandCalls[i] IN
        /\ e.exc = "CalledProcessError" <=> e.rc > 0
        /\ e.exc = "None" <=> e.rc = 0

C10_Witness ==
    \E i \in 1..Len(cmds) :
        cmds[i].cmd = GIT_PUSH /\ cmds[i].rc = 128 /\ cmds[i].exc = "CalledProcessError"

\* The position of the first entry for command c in the command log, 0 when
\* there is none.
FirstIssued(c) ==
    IF IssuedCmd(c) THEN CHOOSE i \in 1..Len(cmds) :
                             /\ cmds[i].cmd = c
                             /\ \A j \in 1..(i - 1) : cmds[j].cmd # c
    ELSE 0

\* The task whose probe is `probe` and whose real commands are `real`, with
\* result `result` and, for a missing tool, the outcome `missing`: the probe
\* is issued once and before every real command; a real command is issued
\* only after a probe that found the tool; a probe that did not find it
\* leaves the task Failed with the manual command named and no real command
\* issued; and a task that ended other than Skipped has issued its probe.
ProbeFirst(probe, real, result, missing) ==
    LET p == FirstIssued(probe) IN
    /\ Cardinality({i \in 1..Len(cmds) : cmds[i].cmd = probe}) <= 1
    /\ \A i \in 1..Len(cmds) :
           cmds[i].cmd \in real => (p # 0 /\ p < i /\ cmds[p].rc = 0)
    /\ (p # 0 /\ cmds[p].rc # 0) =>
           /\ result = missing
           /\ \A i \in 1..Len(cmds) : cmds[i].cmd \notin real
    /\ (Finished(result) /\ result.status # "Skipped") => p # 0

\* C11: in each task that is not skipped, the availability probe of the
\* task's tool is issued before any real command of the task; when the probe
\* reports the tool unavailable the task is recorded Failed with the manual
\* command to run, and no real command of the task is issued.
C11_ProbeBeforeCommand ==
    /\ ProbeFirst(CONDA_PROBE, {CONDA_CREATE}, env_result,
                  Outcome("Failed", "Conda not found", CONDA_CREATE))
    /\ ProbeFirst(GIT_PROBE, {GitOrder[i] : i \in 1..Len(GitOrder)}, git_result,
                  Outcome("Failed", "Git not found", GIT_INIT))

C11_Witness ==
    /\ pc = "done"
    /\ Len(cmds) >= 3
    /\ cmds[1].cmd = CONDA_PROBE /\ cmds[1].rc = 127
    /\ env_result.status = "Failed"
    /\ cmds[2].cmd = GIT_PROBE /\ cmds[2].rc = 0
    /\ cmds[3].cmd = GIT_INIT

\* The entries of the command log for the create command.
Creates == {i \in 1..Len(cmds) : cmds[i].cmd = CONDA_CREATE}

\* The tasks of this launch that have ended Success or Skipped.
SucceededTasks ==
    (IF Succeeded(env_result) THEN 1 ELSE 0) + (IF Succeeded(git_result) THEN 1 ELSE 0)

\* C19: with environment.yml present and conda available, the environment
\* task issues the create command exactly once; it is recorded Success
\* exactly when that command exits 0; when the command exits non-zero it is
\* recorded Failed with the manual command to run, and the success counter
\* does not count it.
C19_CreateOnce ==
    (env_file /\ conda_installed) =>
        /\ Cardinality(Creates) = (IF Finished(env_result) THEN 1 ELSE 0)
        /\ success_count = SucceededTasks
        /\ Finished(env_result) =>
              LET e == cmds[CHOOSE i \in Creates : TRUE] IN
              /\ env_result.status \in {"Success", "Failed"}
              /\ env_result.status = "Success" <=> e.rc = 0
              /\ e.rc > 0 =>
                    env_result = Outcome("Failed", "Failed to create conda environment",
                                         CONDA_CREATE)

C19_Witness ==
    /\ pc = "done"
    /\ env_file /\ conda_installed
    /\ \E i \in Creates : cmds[i].rc = 1
    /\ env_result.status = "Failed"
    /\ git_result.status = "Success"
    /\ success_count = 1

\* C20: whenever run_setup returns, on a new ProjectSetup or on one whose
\* run_setup has returned before, the summary shows a total of 2 and as
\* successful the tasks of this call that ended Success or Skipped, and the
\* value returned is the one the policy gives for these tasks alone.
C20_SummaryOfThisCall ==
    pc = "done" =>
        /\ summary = <<SucceededTasks, 2>>
        /\ exit_code = (CASE SucceededTasks = 2 -> 0
                           [] SucceededTasks = 1 -> 1
                           [] SucceededTasks = 0 -> 2)

\* The second call of run_setup on one object has returned: both of its
\* tasks failed, the summary counts the two successes of the first call out
\* of four tasks, and the value returned is 1.
C20_Witness ==
    /\ pc = "done"
    /\ runs = 2
    /\ env_result.status = "Failed" /\ git_result.status = "Failed"
    /\ summary = <<2, 4>>
    /\ exit_code = 1

\* The process is inside run_setup (not between two launches).
InRun == pc \notin {"idle", "done", "crashed"}

EnvPcs == {"env_begin", "env_probe", "env_create"}

\* C23: on a new ProjectSetup, 0 <= success_count <= total_tasks <= 2 in
\* every state; total_tasks goes up by one, in the first step of a task and
\* in no other; success_count goes up only by one and only in the step in
\* which a task ends Success or Skipped, so at most once per task; a step
\* in which a task ends Failed leaves it as it is.
C23_CounterBounds ==
    /\ [](0 <= success_count /\ success_count <= total_tasks /\ total_tasks <= 2)
    /\ [](success_count = SucceededTasks)
    /\ [][InRun =>
            /\ total_tasks' = (IF pc \in {"env_begin", "git_begin"}
                               THEN total_tasks + 1 ELSE total_tasks)
            /\ success_count' \in {success_count, success_count + 1}
            /\ success_count' = success_count + 1 <=>
                  \/ pc \in EnvPcs /\ Succeeded(env_result') /\ pc' = "git_begin"
                  \/ pc \in GitPcs /\ Succeeded(git_result') /\ pc' = "summary"
            /\ (pc \in EnvPcs /\ env_result'.status = "Failed") =>
                  success_count' = success_count
            /\ (pc \in GitPcs /\ git_result'.status = "Failed") =>
                  success_count' = success_count]_vars

\* The environment task has succeeded, the version-control task has been
\* counted and is about to push.
C23_Witness ==
    /\ pc = "git_push"
    /\ env_result.status = "Success"
    /\ success_count = 1
    /\ total_tasks = 2

\* The commands of each task, its probe included.
EnvCommands == {CONDA_PROBE, CONDA_CREATE}
GitCommands == {GIT_PROBE} \cup {GitOrder[i] : i \in 1..Len(GitOrder)}

\* The remote URL is empty or made of whitespace only.
NoRemoteGiven == Chars(remote_repo) \subseteq {" ", "\t", "\n", "\r", "\f"}

\* C24: the environment task is recorded Skipped exactly when there is no
\* environment.yml, the version-control task exactly when the remote URL is
\* empty or only whitespace; a task recorded Skipped has issued none of its
\* commands, not even the probe, and the step that records it Skipped adds
\* nothing to the command log and leaves the repository as it is.
C24_SkippedIssuesNothing ==
    /\ [](Finished(env_result) => (env_result.status = "Skipped" <=> ~env_file))
    /\ [](Finished(git_result) => (git_result.status = "Skipped" <=> NoRemoteGiven))
    /\ [](env_result.status = "Skipped" => \A c \in EnvCommands : ~IssuedCmd(c))
    /\ [](git_result.status = "Skipped" => \A c \in GitCommands : ~IssuedCmd(c))
    /\ []((env_result.status = "Skipped" /\ git_result.status = "Skipped") => cmds = << >>)
    /\ [][(env_result.status # "Skipped" /\ env_result'.status = "Skipped") =>
            (cmds' = cmds /\ repo' = repo)]_vars
    /\ [][(git_result.status # "Skipped" /\ git_result'.status = "Skipped") =>
            (cmds' = cmds /\ repo' = repo /\ repo = snap')]_vars

\* The environment was created, and the version-control task, given a URL
\* of two spaces, was skipped: the log holds the two conda commands only.
C24_Witness ==
    /\ pc = "summary"
    /\ remote_repo = <<" ", " ">>
    /\ env_result.status = "Success"
    /\ git_result.status = "Skipped"
    /\ Len(cmds) = 2
    /\ repo = snap

----------------------------------------------------------------------------
(* Properties of the pre-generation hook *)

ValidatorOrder ==
    <<"validate_repo_name", "validate_project_name", "validate_author_email",
      "validate_description", "validate_setup_environment",
      "check_python_version", "check_pypi_name_conflict">>

\* Validator v hard-fails on the parameters of this run.
HardFails(v) == Call(v, params).exit = 1

\* The warnings of the validators from the k-th on, in order.
RECURSIVE WarningsFrom(_)
WarningsFrom(k) ==
    IF k > Len(ValidatorOrder) THEN << >>
    ELSE Call(ValidatorOrder[k], params).lines \o WarningsFrom(k + 1)

Errors(lines) == {i \in 1..Len(lines) : lines[i].level = "ERROR"}

\* C4: the validators run in the fixed order; no validator runs after one
\* that hard-fails, and after an ERROR line nothing more is called or
\* printed; the process ends with status 1 exactly when a validator
\* hard-fails, that validator being the last one called and its ERROR line
\* the last line of the error stream; otherwise all seven validators have
\* run and every warning any of them gives is on the error stream, in
\* order, when main returns.
C4_FailFastPipeline ==
    /\ [](/\ Len(ran) <= Len(ValidatorOrder)
          /\ \A i \in 1..Len(ran) : ran[i] = ValidatorOrder[i]
          /\ \A i \in 1..(Len(ran) - 1) : ~HardFails(ran[i]))
    /\ [][Errors(stderr) # {} => UNCHANGED <<ran, stderr>>]_vars
    /\ [](vpc = 0 =>
            /\ pre_exit \in {0, 1}
            /\ pre_exit = 1 <=> (\E i \in 1..Len(ValidatorOrder) : HardFails(ValidatorOrder[i]))
            /\ pre_exit = 1 =>
                  /\ ran # << >> /\ HardFails(ran[Len(ran)])
                  /\ Errors(stderr) = {Len(stderr)}
            /\ pre_exit = 0 =>
                  /\ ran = ValidatorOrder
                  /\ Errors(stderr) = {}
                  /\ stderr = WarningsFrom(1))
    /\ [](vpc # 0 => pre_exit = -1 /\ Errors(stderr) = {})

C4_Witness ==
    /\ vpc = 0
    /\ pre_exit = 0
    /\ ran = ValidatorOrder
    /\ Len(stderr) = 3

C4_WitnessFailFast ==
    /\ vpc = 0
    /\ pre_exit = 1
    /\ Len(ran) = 4
    /\ Len(stderr) = 3
    /\ Len(params.description) = MAX_DESCRIPTION_LENGTH + 1

\* The lines check_pypi_name_conflict has printed on the error stream.
PypiLines ==
    SelectSeq(stderr, LAMBDA l : l.text[1] \in
        {"already exists in PyPI", "Could not check PyPI for package name conflicts"})

\* check_pypi_name_conflict has been called and has come back.
PypiChecked == Len(ran) = Len(ValidatorOrder)

\* C12: the name-availability check never hard-fails, and main goes on to
\* return normally after it; an answer 200 gives the "already exists"
\* warning, an answer 404 gives no line at all, and every other outcome (any
\* other status, a network error) gives one warning.
C12_WarnsUnlessNotFound ==
    PypiChecked =>
        /\ Errors(stderr) = {}
        /\ vpc \in {Len(ValidatorOrder) + 1, 0}
        /\ vpc = 0 => pre_exit = 0
        /\ params.pypi = HttpStatus(200) =>
               PypiLines = warning(<<"already exists in PyPI">>).lines
        /\ params.pypi = HttpStatus(404) => PypiLines = << >>
        /\ params.pypi \notin {HttpStatus(200), HttpStatus(404)} =>
               /\ Len(PypiLines) = 1
               /\ PypiLines[1].level = "WARNING"

\* What the code does in the case C12 misses: an answer with a 2xx status
\* other than 200 is returned by urlopen and no line is printed for it.
C12_SilentOn2xx ==
    (PypiChecked /\ params.pypi = HttpStatus(204)) => PypiLines = << >>

C12_Witness ==
    /\ vpc = 0 /\ pre_exit = 0
    /\ params.pypi = HttpStatus(204)
    /\ PypiLines = << >>

\* C13: the network call of the name-availability check is bounded by a
\* timeout: the pipeline is never stuck (as long as it has not ended it can
\* take its next step), and when the package index never answers, the check
\* comes back having printed the "could not check" warning and nothing else.
C13_TimeoutBoundsTheCheck ==
    /\ vpc # 0 => ENABLED NextPre
    /\ (PypiChecked /\ params.pypi = NoAnswer) =>
           /\ PypiLines = warning(<<"Could not check PyPI for package name conflicts">>).lines
           /\ Errors(stderr) = {}

\* The local validators have passed, the package index never answers, and
\* the process is inside check_pypi_name_conflict for good.
C13_Witness ==
    /\ vpc = Len(main_calls)
    /\ params.pypi = NoAnswer
    /\ pre_exit = -1
    /\ ~ENABLED NextPre

\* Validator number k of main has been called and has hard-failed: the
\* process has ended with status 1 and nothing was called after it.
HardFailedAt(k) == vpc = 0 /\ pre_exit = 1 /\ Len(ran) = k

\* Validator number k of main has been called and has returned.
PassedAt(k) == Len(ran) > k \/ (Len(ran) = k /\ pre_exit # 1)

\* re.match of r"^[A-Za-z_][A-Za-z0-9_]*$"
MatchesIdentifier(name) ==
    \E t \in UpToDollar(name) :
        /\ t # << >>
        /\ t[1] \in Letter \cup {"_"}
        /\ \A i \in 2..Len(t) : t[i] \in Letter \cup Digit \cup {"_"}

\* C14: validate_repo_name hard-fails exactly when the name is empty or is
\* not matched by ^[A-Za-z_][A-Za-z0-9_]*$, and returns otherwise; every name
\* with a hyphen hard-fails, as the first thing the hook does.
C14_RepoNameIsIdentifier ==
    LET name == params.repo_name IN
    Len(ran) >= 1 =>
        /\ HardFailedAt(1) <=> (name = << >> \/ ~MatchesIdentifier(name))
        /\ PassedAt(1) <=> (name # << >> /\ MatchesIdentifier(name))
        /\ "-" \in Chars(name) => HardFailedAt(1) /\ Errors(stderr) = {1}

C14_Witness ==
    /\ HardFailedAt(1)
    /\ params.repo_name = <<"a", "-", "Z">>
    /\ stderr = error(<<"It must contain only letters, numbers, and underscores.">>).lines

\* C15: validate_description hard-fails exactly when the description is
\* longer than 100 characters: length 101 and more hard-fails, length 100
\* and less, the empty description included, returns.
C15_DescriptionLimit ==
    LET n == Len(params.description) IN
    Len(ran) >= 4 =>
        /\ HardFailedAt(4) <=> n > 100
        /\ PassedAt(4) <=> n <= 100
        /\ n >= 101 => HardFailedAt(4)
        /\ n <= 100 => PassedAt(4)

\* A description of exactly 100 characters has passed and main has returned.
C15_Witness ==
    /\ Len(params.description) = 100
    /\ PassedAt(4)
    /\ vpc = 0 /\ pre_exit = 0

\* The pattern ^[a-zA-Z0-9._%+-]+@[a-zA-Z0-9.-]+\.[a-zA-Z]{2,}$ as an automaton:
\* 0 at the start, 1 in the local part, 2 after the @, 3 in the domain,
\* 4 after a dot of the domain, 5 and 6 after one and after two or more
\* letters that follow that dot.
EmailStep(q, c) ==
    LET local == Letter \cup Digit \cup {".", "_", "%", "+", "-"}
        domain == Letter \cup Digit \cup {".", "-"}
    IN (IF q \in {0, 1} /\ c \in local THEN {1} ELSE {})
       \cup (IF q = 1 /\ c = "@" THEN {2} ELSE {})
       \cup (IF q \in {2, 3} /\ c \in domain THEN {3} ELSE {})
       \cup (IF q = 3 /\ c = "." THEN {4} ELSE {})
       \cup (IF q = 4 /\ c \in Letter THEN {5} ELSE {})
       \cup (IF q \in {5, 6} /\ c \in Letter THEN {6} ELSE {})

RECURSIVE EmailRun(_, _)
EmailRun(Q, s) ==
    IF s = << >> THEN Q
    ELSE EmailRun(UNION {EmailStep(q, Head(s)) : q \in Q}, Tail(s))

\* re.match of that pattern.
MatchesEmail(email) == \E t \in UpToDollar(email) : 6 \in EmailRun({0}, t)

\* C16: validate_author_email returns for the empty email, and for any other
\* email it hard-fails exactly when the email is not matched by
\* ^[a-zA-Z0-9._%+-]+@[a-zA-Z0-9.-]+\.[a-zA-Z]{2,}$.
C16_EmailPattern ==
    LET email == params.author_email IN
    Len(ran) >= 3 =>
        /\ email = << >> => PassedAt(3)
        /\ email # << >> => (HardFailedAt(3) <=> ~MatchesEmail(email))
        /\ email # << >> => (PassedAt(3) <=> MatchesEmail(email))

\* An email whose last label has one letter only has hard-failed.
C16_Witness ==
    /\ HardFailedAt(3)
    /\ params.author_email = <<"a", "@", "a", ".", "a">>
    /\ Errors(stderr) = {1}

C16_WitnessAccepted ==
    /\ vpc = 0 /\ pre_exit = 0
    /\ params.author_email = <<"a", "%", "+", "_", "1", "@", "B", ".", "I", "o">>

\* The characters the claim calls path-unsafe.
PathUnsafe == {"/", "\\", ":", "*", "?", "\"", "<", ">", "|"}

\* Nothing is left of the name once whitespace is trimmed from its ends.
Blank(name) == Chars(name) \subseteq {" ", "\t", "\n", "\r", "\f"}

\* The path-unsafe characters the error stream carries a warning for.
WarnedChars ==
    {c \in PathUnsafe : \E i \in 1..Len(stderr) :
        stderr[i] = Line("WARNING", <<"contains character", c>>)}

\* C17: validate_project_name hard-fails exactly when the name is empty once
\* trimmed; a name that is not blank passes whatever path-unsafe characters
\* it has: each of them gets a warning, none gets an error, and with the
\* other parameters valid main returns normally.
C17_ProjectName ==
    LET name == params.project_name IN
    Len(ran) >= 2 =>
        /\ HardFailedAt(2) <=> Blank(name)
        /\ PassedAt(2) <=> ~Blank(name)
        /\ Blank(name) => WarnedChars = {}
        /\ ~Blank(name) =>
              /\ WarnedChars = Chars(name) \cap PathUnsafe
              /\ (params = [PassingParams EXCEPT !.project_name = name]) =>
                     /\ Errors(stderr) = {}
                     /\ vpc = 0 => pre_exit = 0

\* A name with every path-unsafe character has drawn nine warnings and main
\* has returned.
C17_Witness ==
    /\ vpc = 0 /\ pre_exit = 0
    /\ PathUnsafe \subseteq Chars(params.project_name)
    /\ Len(stderr) = 9
    /\ WarnedChars = PathUnsafe

\* C18: validate_setup_environment returns for the one-character values y
\* and n and hard-fails for every other value: the empty one, Y and N, and
\* y or n with whitespace before or after.
C18_SetupFlag ==
    LET flag == params.setup_environment IN
    Len(ran) >= 5 =>
        /\ PassedAt(5) <=> (Len(flag) = 1 /\ flag[1] \in {"y", "n"})
        /\ HardFailedAt(5) <=> ~(Len(flag) = 1 /\ flag[1] \in {"y", "n"})
        /\ (flag = << >> \/ Chars(flag) \cap {"Y", "N", " ", "\n"} # {}) => HardFailedAt(5)

C18_Witness ==
    /\ HardFailedAt(5)
    /\ params.setup_environment = <<"y", " ">>
    /\ stderr = error(<<"Setup environment must be 'y' or 'n'">>).lines

C18_WitnessAccepted ==
    /\ vpc = 0 /\ pre_exit = 0
    /\ params.setup_environment = <<"y">>

\* The validators that look at nothing outside the process.
LocalValidators ==
    {"validate_repo_name", "validate_project_name", "validate_author_email",
     "validate_description", "validate_setup_environment", "check_python_version"}

Called(v) == \E i \in 1..Len(ran) : ran[i] = v

\* main has come to the call of check_pypi_name_conflict, whose first
\* statements send the request, or has made it.
LookupReached ==
    \/ Called("check_pypi_name_conflict")
    \/ (vpc \in 1..Len(main_calls) /\ main_calls[vpc] = "check_pypi_name_conflict")

\* C25: the request to the package index is made only when all six local
\* validators have been called and none has hard-failed; a run that ends
\* with a hard failure has made no request; and until the request is made
\* nothing the run has done or printed depends on the package index.
C25_LookupAfterLocalChecks ==
    /\ [](LookupReached =>
            /\ \A v \in LocalValidators : Called(v) /\ ~HardFails(v)
            /\ pre_exit # 1)
    /\ [](pre_exit = 1 => ~LookupReached)
    /\ [](~Called("check_pypi_name_conflict") => PypiLines = << >>)
    /\ [](\A v \in LocalValidators : \A a \in PypiAnswers :
              Call(v, params) = Call(v, [params EXCEPT !.pypi = a]))

\* The run has ended with a hard failure at the last local validator, on a
\* name the package index has: nothing was asked, nothing printed about it.
C25_Witness ==
    /\ vpc = 0 /\ pre_exit = 1
    /\ Len(ran) = 6
    /\ params.pypi = HttpStatus(200)
    /\ ~LookupReached
    /\ PypiLines = << >>

----------------------------------------------------------------------------
(* Properties of the settings classes *)

\* A settings object was passed for the field.
Provided(v) == v \notin {Missing, None}

\* ProjectPaths(...) has returned an object.
ProjectPathsBuilt == cpc = "built" /\ call.cls = "ProjectPaths"

\* C21: in the object ProjectPaths returns, a data_folder or report_folder
\* that was passed to it is the one passed, and one that was not passed is
\* the default built on root/data or root/report.
C21_GivenSettingsKept ==
    ProjectPathsBuilt =>
        LET kw == call.kwargs
            root == built.val.root.p
        IN /\ built.val.data_folder =
                 (IF Provided(kw.data_folder) THEN kw.data_folder
                  ELSE SettingsAt("DataFolderSettings", Append(root, "data")))
           /\ built.val.report_folder =
                 (IF Provided(kw.report_folder) THEN kw.report_folder
                  ELSE SettingsAt("ReportFolderSettings", Append(root, "report")))

\* What the code does with them: whatever was passed, both fields of the
\* object are the defaults built on its root.
C21_AlwaysDefaults ==
    ProjectPathsBuilt =>
        LET root == built.val.root.p IN
        /\ built.val.data_folder = SettingsAt("DataFolderSettings", Append(root, "data"))
        /\ built.val.report_folder = SettingsAt("ReportFolderSettings", Append(root, "report"))

\* ProjectPaths was given the settings of the user's data folder and has
\* returned an object with those of the project's own.
C21_Witness ==
    /\ ProjectPathsBuilt
    /\ call.kwargs.root = Missing
    /\ call.kwargs.data_folder = SettingsAt("DataFolderSettings", <<"mnt", "data">>)
    /\ built.val.data_folder = SettingsAt("DataFolderSettings", <<"project", "data">>)

\* validate_after of a folder-settings class has run.
FolderValidated ==
    call.cls \in {"DataFolderSettings", "ReportFolderSettings"} /\ cpc # "called"

\* The keyword argument carries a folder: a string that is not empty, or a
\* Path. (None and the empty string stand for no folder.)
Given(v) == (v.t = "str" /\ v.p # << >>) \/ v.t = "Path"

\* C22: validate_after of DataFolderSettings (external, interim, processed,
\* raw) and of ReportFolderSettings (figures, tables) raises ValueError when
\* the root folder is missing or is neither a string nor a Path; with a root
\* folder given it returns the dictionary with every subfolder that was not
\* given set to <root>/<subfolder name> and everything given as it was.
C22_SubfolderDefaults ==
    FolderValidated =>
        LET kw == call.kwargs
            cls == call.cls
            root == kw[RootKey(cls)]
        IN /\ Subfolders("DataFolderSettings") = {"external", "interim", "processed", "raw"}
           /\ Subfolders("ReportFolderSettings") = {"figures", "tables"}
           /\ (root \in {Missing, None} \/ root.t \notin {"str", "Path"}) =>
                  /\ values.exc = "ValueError"
                  /\ cpc = "raised"
           /\ Given(root) =>
                  /\ values.exc = "None"
                  /\ values.val[RootKey(cls)] = root
                  /\ \A k \in Subfolders(cls) :
                         values.val[k] = (IF Given(kw[k]) THEN kw[k]
                                          ELSE PathOf(Append(root.p, k)))

\* DataFolderSettings(data_root="project/data", raw=Path("mnt/raw")) has
\* returned: raw is the folder given, the three others are the defaults.
C22_Witness ==
    /\ cpc = "built"
    /\ call.cls = "DataFolderSettings"
    /\ call.kwargs["data_root"] = Str(<<"project", "data">>)
    /\ call.kwargs["raw"] = PathOf(<<"mnt", "raw">>)
    /\ call.kwargs["external"] = Missing
    /\ built.val["raw"] = PathOf(<<"mnt", "raw">>)
    /\ built.val["external"] = PathOf(<<"project", "data", "external">>)

C22_WitnessRaised ==
    /\ cpc = "raised"
    /\ call.cls = "ReportFolderSettings"
    /\ call.kwargs["report_root"] = Number(5)
    /\ values.exc = "ValueError"

====
